---- MODULE Spec2Model ----
\* Model of the turmite engine of wasm-langton-ant-rs (src/src/lib.rs):
\* the decision catalog, the orientation algebra, Turmite::new, Turmite::tick
\* and the Display dump, with the draw calls sent to the canvas context.
EXTENDS Integers, Sequences, FiniteSets, TLC

\* ---------------------------------------------------------------- bounds
\* canvas_width and canvas_height are drawn from 0..MaxCanvas
MaxCanvas == 5
\* pixel_ratio is drawn from 1..MaxRatio
MaxRatio == 2

\* ---------------------------------------------------------------- colours
EMPTY_COLOR == "rgb(255, 255, 255)"
FILL_COLOR == "rgb(0, 0, 0)"
ANT_COLOR == "rgb(200, 0, 0)"

\* ---------------------------------------------------------------- decisions
Rotate == {"Clockwise", "CounterClockwise", "Noop", "Uturn"}

\* Decision::new
Decision(rotate, color, state) == [rotate |-> rotate, color |-> color, state |-> state]

D(rotate, color, state) == Decision(rotate, color, state)

\* the catalog with its last table left out
tables_without_last ==
  LET Name(n) == [name |-> n,
                  table |-> <<D("Noop", FALSE, FALSE), D("Noop", FALSE, FALSE),
                              D("Noop", FALSE, FALSE), D("Noop", FALSE, FALSE)>>]
  IN <<Name("fibonacci"), Name("langton"), Name("chaotic_one"),
       Name("chaotic_two"), Name("chaotic_three"), Name("chaotic_four"),
       Name("coral"), Name("square_one"), Name("square_two"),
       Name("counter_one"), Name("counter_two"), Name("spiral_one"),
       Name("spiral_two"), Name("spiral_three"), Name("ladder")>>

\* the vec! of DecisionTable::random, in source order
tables ==
  <<
     [name |-> "fibonacci",
      table |-> <<D("CounterClockwise", TRUE, TRUE), D("CounterClockwise", TRUE, TRUE), D("Clockwise", TRUE, TRUE), D("Noop", FALSE, FALSE)>>],
     [name |-> "langton",
      table |-> <<D("Clockwise", TRUE, FALSE), D("CounterClockwise", FALSE, FALSE), D("Clockwise", TRUE, FALSE), D("CounterClockwise", FALSE, FALSE)>>],
     [name |-> "chaotic_one",
      table |-> <<D("Clockwise", TRUE, FALSE), D("Clockwise", TRUE, TRUE), D("Noop", FALSE, FALSE), D("Noop", FALSE, TRUE)>>],
     [name |-> "chaotic_two",
      table |-> <<D("Clockwise", TRUE, TRUE), D("CounterClockwise", FALSE, TRUE), D("Noop", TRUE, FALSE), D("Noop", FALSE, TRUE)>>],
     [name |-> "chaotic_three",
      table |-> <<D("CounterClockwise", TRUE, TRUE), D("CounterClockwise", FALSE, TRUE), D("Clockwise", TRUE, TRUE), D("CounterClockwise", FALSE, FALSE)>>],
     [name |-> "chaotic_four",
      table |-> <<D("CounterClockwise", TRUE, TRUE), D("CounterClockwise", FALSE, TRUE), D("Noop", TRUE, FALSE), D("Noop", TRUE, TRUE)>>],
     [name |-> "coral",
      table |-> <<D("Clockwise", TRUE, TRUE), D("CounterClockwise", TRUE, TRUE), D("Clockwise", TRUE, TRUE), D("CounterClockwise", FALSE, FALSE)>>],
     [name |-> "square_one",
      table |-> <<D("CounterClockwise", TRUE, FALSE), D("Clockwise", TRUE, TRUE), D("Clockwise", FALSE, FALSE), D("CounterClockwise", FALSE, TRUE)>>],
     [name |-> "square_two",
      table |-> <<D("Clockwise", FALSE, TRUE), D("CounterClockwise", FALSE, FALSE), D("Noop", TRUE, FALSE), D("Uturn", TRUE, TRUE)>>],
     [name |-> "counter_one",
      table |-> <<D("Noop", FALSE, TRUE), D("Uturn", FALSE, TRUE), D("Clockwise", TRUE, TRUE), D("Noop", FALSE, TRUE)>>],
     [name |-> "counter_two",
      table |-> <<D("Clockwise", TRUE, TRUE), D("Noop", FALSE, TRUE), D("Noop", FALSE, FALSE), D("CounterClockwise", TRUE, TRUE)>>],
     [name |-> "spiral_one",
      table |-> <<D("Noop", TRUE, TRUE), D("CounterClockwise", TRUE, FALSE), D("Clockwise", TRUE, TRUE), D("Noop", FALSE, FALSE)>>],
     [name |-> "spiral_two",
      table |-> <<D("CounterClockwise", TRUE, FALSE), D("Clockwise", FALSE, TRUE), D("Clockwise", TRUE, FALSE), D("CounterClockwise", FALSE, TRUE)>>],
     [name |-> "spiral_three",
      table |-> <<D("Uturn", TRUE, FALSE), D("Noop", FALSE, TRUE), D("CounterClockwise", FALSE, FALSE), D("Clockwise", FALSE, TRUE)>>],
     [name |-> "ladder",
      table |-> <<D("Noop", FALSE, TRUE), D("Uturn", TRUE, TRUE), D("CounterClockwise", TRUE, FALSE), D("Noop", TRUE, TRUE)>>],
     [name |-> "dixie",
      table |-> <<D("Clockwise", FALSE, TRUE), D("CounterClockwise", FALSE, FALSE), D("Uturn", TRUE, TRUE), D("Clockwise", FALSE, FALSE)>>]
  >>
\* decide with the two key bits exchanged: self.table[y * 2 + x]
decide_swapped(self, x, y) == self.table[(y * 2 + x) + 1]

\* decide with the key bits added instead of combined: self.table[x + y]
decide_additive(self, x, y) == self.table[(x + y) + 1]

\* DecisionTable::decide: self.table[x * 2 + y] (TLA+ sequences start at 1)
decide(self, x, y) == self.table[(x * 2 + y) + 1]

\* ---------------------------------------------------------------- orientation
Orientation == {"Up", "Right", "Down", "Left"}

uturn(o) ==
  CASE o = "Up" -> "Down"
    [] o = "Right" -> "Left"
    [] o = "Down" -> "Up"
    [] o = "Left" -> "Right"

\* clockwise whose last arm turns Left back to Right instead of Up
clockwise_no_wrap(o) ==
  CASE o = "Up" -> "Right"
    [] o = "Right" -> "Down"
    [] o = "Down" -> "Left"
    [] o = "Left" -> "Right"

clockwise(o) ==
  CASE o = "Up" -> "Right"
    [] o = "Right" -> "Down"
    [] o = "Down" -> "Left"
    [] o = "Left" -> "Up"

counter_clockwise(o) ==
  CASE o = "Up" -> "Left"
    [] o = "Left" -> "Down"
    [] o = "Down" -> "Right"
    [] o = "Right" -> "Up"

\* ---------------------------------------------------------------- turmite
\* A turmite value is a record of the struct's fields, together with
\*   panicked : an index into field was out of range (Rust panics; on the
\*              wasm target the call traps and nothing after it runs)
\*   draws    : the set_fill_style + fill_rect pairs sent to ctx so far
\* canvas is the drawing surface behind ctx: the colour of every pixel of a
\* surface of canvas_width by canvas_height pixels.
VARIABLES x, y, orientation, behavior, state, width, height, field,
          pixel_ratio, is_active,
          panicked, draws, logged, pre, args, canvas

vars == <<x, y, orientation, behavior, state, width, height, field,
          pixel_ratio, is_active, panicked, draws, logged, pre, args, canvas>>

Self ==
  [x |-> x, y |-> y, orientation |-> orientation, behavior |-> behavior,
   state |-> state, width |-> width, height |-> height, field |-> field,
   pixel_ratio |-> pixel_ratio, is_active |-> is_active,
   panicked |-> panicked, draws |-> draws]

\* the bounds check of self.field[self.x][self.y]
InRange(self) ==
  /\ self.x \in DOMAIN self.field
  /\ self.y \in DOMAIN self.field[self.x]

cur_color(self) == self.field[self.x][self.y]

\* set_color that overwrites the whole vector self.field[self.x]
set_color_column(self, v) ==
  IF self.panicked THEN self
  ELSE IF ~InRange(self) THEN [self EXCEPT !.panicked = TRUE]
  ELSE [self EXCEPT !.field[self.x] = [j \in DOMAIN @ |-> v]]

set_color(self, v) ==
  IF self.panicked THEN self
  ELSE IF ~InRange(self) THEN [self EXCEPT !.panicked = TRUE]
  ELSE [self EXCEPT !.field[self.x][self.y] = v]

\* move_by that clamps a negative coordinate but keeps the turmite active
move_by_keeps_active(self, dx, dy) ==
  LET sum_x == self.x + dx
      new_x == IF sum_x < 0 THEN 0 ELSE sum_x
      sum_y == self.y + dy
      new_y == IF sum_y < 0 THEN 0 ELSE sum_y
  IN [self EXCEPT !.x = new_x, !.y = new_y]

move_by(self, dx, dy) ==
  LET sum_x == self.x + dx
      act_x == IF sum_x < 0 THEN FALSE ELSE self.is_active
      new_x == IF sum_x < 0 THEN 0 ELSE sum_x
      sum_y == self.y + dy
      act_y == IF sum_y < 0 THEN FALSE ELSE act_x
      new_y == IF sum_y < 0 THEN 0 ELSE sum_y
  IN [self EXCEPT !.is_active = act_y, !.x = new_x, !.y = new_y]

rotate(self, rotation) ==
  [self EXCEPT !.orientation =
     CASE rotation = "Noop" -> self.orientation
       [] rotation = "Clockwise" -> clockwise(self.orientation)
       [] rotation = "CounterClockwise" -> counter_clockwise(self.orientation)
       [] rotation = "Uturn" -> uturn(self.orientation)]

tick_state(self) ==
  IF self.panicked THEN self
  ELSE IF ~InRange(self) THEN [self EXCEPT !.panicked = TRUE]
  ELSE
    LET sx == IF self.state THEN 1 ELSE 0
        sy == IF cur_color(self) THEN 1 ELSE 0
        d == decide(self.behavior, sx, sy)
    IN set_color(rotate([self EXCEPT !.state = d.state], d.rotate), d.color)

\* tick_pos with the deltas of Up and Down exchanged
tick_pos_mirrored(self) ==
  IF self.panicked THEN self
  ELSE IF self.x < self.width /\ self.y < self.height THEN
    CASE self.orientation = "Up" -> move_by(self, 0, 1)
      [] self.orientation = "Right" -> move_by(self, 1, 0)
      [] self.orientation = "Down" -> move_by(self, 0, -1)
      [] self.orientation = "Left" -> move_by(self, -1, 0)
  ELSE [self EXCEPT !.is_active = FALSE]

\* tick_pos that moves first and deactivates a turmite found outside the grid
tick_pos_checks_after(self) ==
  IF self.panicked THEN self
  ELSE
    LET moved ==
          CASE self.orientation = "Up" -> move_by(self, 0, -1)
            [] self.orientation = "Right" -> move_by(self, 1, 0)
            [] self.orientation = "Down" -> move_by(self, 0, 1)
            [] self.orientation = "Left" -> move_by(self, -1, 0)
    IN IF moved.x < moved.width /\ moved.y < moved.height THEN moved
       ELSE [moved EXCEPT !.is_active = FALSE]

tick_pos(self) ==
  IF self.panicked THEN self
  ELSE IF self.x < self.width /\ self.y < self.height THEN
    CASE self.orientation = "Up" -> move_by(self, 0, -1)
      [] self.orientation = "Right" -> move_by(self, 1, 0)
      [] self.orientation = "Down" -> move_by(self, 0, 1)
      [] self.orientation = "Left" -> move_by(self, -1, 0)
  ELSE [self EXCEPT !.is_active = FALSE]

\* render without the is_active guard
render_unguarded(self, color) ==
  IF self.panicked THEN self
  ELSE
    [self EXCEPT !.draws = Append(@,
       [color |-> color,
        x |-> self.x * self.pixel_ratio, y |-> self.y * self.pixel_ratio,
        w |-> self.pixel_ratio, h |-> self.pixel_ratio])]

render(self, color) ==
  IF self.panicked THEN self
  ELSE IF self.is_active THEN
    [self EXCEPT !.draws = Append(@,
       [color |-> color,
        x |-> self.x * self.pixel_ratio, y |-> self.y * self.pixel_ratio,
        w |-> self.pixel_ratio, h |-> self.pixel_ratio])]
  ELSE self

render_self(self) == render(self, ANT_COLOR)

render_cell(self) ==
  IF self.panicked THEN self
  ELSE IF ~InRange(self) THEN [self EXCEPT !.panicked = TRUE]
  ELSE render(self, IF cur_color(self) THEN FILL_COLOR ELSE EMPTY_COLOR)

\* tick that draws the agent marker before the move step
tick_marks_before_move(self) ==
  IF self.is_active
  THEN tick_pos(render_self(render_cell(tick_state(self))))
  ELSE self

\* tick that draws the cell before the state update
tick_renders_before_update(self) ==
  IF self.is_active
  THEN render_self(tick_pos(tick_state(render_cell(self))))
  ELSE self

\* tick without the is_active guard
tick_unguarded(self) ==
  render_self(tick_pos(render_cell(tick_state(self))))

tick(self) ==
  IF self.is_active
  THEN render_self(tick_pos(render_cell(tick_state(self))))
  ELSE self

\* Turmite::new with the start coordinates exchanged: x from height, y from width
new_exchanged(canvas_width, canvas_height, ratio, table, st, col) ==
  LET w == canvas_width \div ratio
      h == canvas_height \div ratio
      f == [i \in 0 .. w - 1 |-> [j \in 0 .. h - 1 |-> FALSE]]
      turmite == [x |-> h \div 2, y |-> w \div 2, orientation |-> "Right",
                  is_active |-> TRUE, behavior |-> table, state |-> st,
                  field |-> f, width |-> w, height |-> h,
                  pixel_ratio |-> ratio,
                  panicked |-> FALSE, draws |-> <<>>]
  IN IF h \div 2 \in DOMAIN f /\ w \div 2 \in 0 .. h - 1
     THEN [turmite EXCEPT !.field[h \div 2][w \div 2] = col]
     ELSE [turmite EXCEPT !.panicked = TRUE]

\* Turmite::new; the three random draws are the parameters table, st and col
new(canvas_width, canvas_height, ratio, table, st, col) ==
  LET w == canvas_width \div ratio
      h == canvas_height \div ratio
      f == [i \in 0 .. w - 1 |-> [j \in 0 .. h - 1 |-> FALSE]]
      turmite == [x |-> w \div 2, y |-> h \div 2, orientation |-> "Right",
                  is_active |-> TRUE, behavior |-> table, state |-> st,
                  field |-> f, width |-> w, height |-> h,
                  pixel_ratio |-> ratio,
                  panicked |-> FALSE, draws |-> <<>>]
  IN set_color(turmite, col)

\* impl fmt::Display: the cells, outer loop over self.field, inner over a row
RECURSIVE RowOutput(_, _)
RowOutput(row, j) ==
  IF j \notin DOMAIN row THEN <<>>
  ELSE <<IF row[j] THEN "1" ELSE "0">> \o RowOutput(row, j + 1)

RECURSIVE FieldOutput(_, _)
FieldOutput(f, i) ==
  IF i \notin DOMAIN f THEN <<>>
  ELSE RowOutput(f[i], 0) \o FieldOutput(f, i + 1)

\* the dump with the loops exchanged: outer over y, inner over x
fmt_by_y(self) ==
  LET Cell(k) == self.field[k % self.width][k \div self.width]
  IN [width |-> self.width, height |-> self.height,
      field_output |-> [k \in 1 .. self.width * self.height |->
                          IF Cell(k - 1) THEN "1" ELSE "0"]]

fmt(self) ==
  [width |-> self.width, height |-> self.height,
   field_output |-> FieldOutput(self.field, 0)]

\* ctx.set_fill_style(color) followed by ctx.fill_rect(x, y, w, h): the pixels
\* of the rectangle that lie on the surface take the colour
fill_rect(cv, d) ==
  [px \in DOMAIN cv |-> [py \in DOMAIN cv[px] |->
     IF d.x <= px /\ px < d.x + d.w /\ d.y <= py /\ py < d.y + d.h
     THEN d.color ELSE cv[px][py]]]

\* the draw calls of one tick, in the order they were issued
RECURSIVE Paint(_, _)
Paint(cv, ds) ==
  IF ds = <<>> THEN cv ELSE Paint(fill_rect(cv, Head(ds)), Tail(ds))

\* ---------------------------------------------------------------- machine
Install(t) ==
  /\ x = t.x /\ y = t.y /\ orientation = t.orientation
  /\ behavior = t.behavior /\ state = t.state
  /\ width = t.width /\ height = t.height /\ field = t.field
  /\ pixel_ratio = t.pixel_ratio /\ is_active = t.is_active
  /\ panicked = t.panicked /\ draws = t.draws

InitFrom(Canvas, Ratios) ==
  \E cw \in Canvas, ch \in Canvas, pr \in Ratios,
     k \in 1 .. Len(tables), st \in BOOLEAN, col \in BOOLEAN :
    /\ Install(new(cw, ch, pr, tables[k], st, col))
    /\ args = [canvas_width |-> cw, canvas_height |-> ch, pixel_ratio |-> pr,
               state |-> st, color |-> col]
    /\ logged = <<>>
    /\ pre = <<>>
    /\ canvas = [px \in 0 .. cw - 1 |-> [py \in 0 .. ch - 1 |-> EMPTY_COLOR]]

Init == InitFrom(0 .. MaxCanvas, 1 .. MaxRatio)

\* one call of Turmite::tick(ctx); draws holds the draw calls of this call
Tick ==
  /\ ~panicked
  /\ LET t == tick([Self EXCEPT !.draws = <<>>])
     IN /\ x' = t.x /\ y' = t.y /\ orientation' = t.orientation
        /\ behavior' = t.behavior /\ state' = t.state
        /\ width' = t.width /\ height' = t.height /\ field' = t.field
        /\ pixel_ratio' = t.pixel_ratio /\ is_active' = t.is_active
        /\ panicked' = t.panicked /\ draws' = t.draws
        /\ canvas' = Paint(canvas, t.draws)
  /\ logged' = <<>>
  /\ pre' = <<[x |-> x, y |-> y, orientation |-> orientation, state |-> state,
               is_active |-> is_active, field |-> field]>>
  /\ UNCHANGED args

\* one call of Turmite::log(); logged holds the text of this call
Log ==
  /\ ~panicked
  /\ logged' = <<fmt(Self)>>
  /\ draws' = <<>>
  /\ UNCHANGED <<x, y, orientation, behavior, state, width, height, field,
                 pixel_ratio, is_active, panicked, pre, args, canvas>>

Next == Tick \/ Log

Spec == Init /\ [][Next]_vars

\* the end-to-end scenario create(10, 10, 1), ticked once per animation frame
InitScenario == InitFrom({10}, {1})

SpecScenario == InitScenario /\ [][Next]_vars /\ WF_vars(Tick)

\* ---------------------------------------------------------------- properties
\* a step that is a call of tick (a call of log leaves its text in logged)
TickStep == logged' = <<>>

\* the turmite stands on a cell of the grid
InGrid == 0 <= x /\ x < width /\ 0 <= y /\ y < height

\* the state before the latest tick call, when there was one
Ticked == Len(pre) = 1

Prev == pre[1]

\* the deltas of the move step, as the specification lists them
Dx(o) == IF o = "Right" THEN 1 ELSE IF o = "Left" THEN -1 ELSE 0

Dy(o) == IF o = "Down" THEN 1 ELSE IF o = "Up" THEN -1 ELSE 0

\* headings in clockwise order, for stating rotations as quarter turns
Headings == <<"Up", "Right", "Down", "Left">>

HeadingIndex(o) == CHOOSE i \in 1 .. 4 : Headings[i] = o

QuarterTurns(r) ==
  CASE r = "Noop" -> 0 [] r = "Clockwise" -> 1
    [] r = "Uturn" -> 2 [] r = "CounterClockwise" -> 3

Turned(o, r) == Headings[((HeadingIndex(o) - 1 + QuarterTurns(r)) % 4) + 1]

\* C1: once the turmite is inactive it stays inactive, and every later call
\* leaves x, y, orientation, the internal state and every grid cell unchanged
\* and issues no draw call.
C1_InactiveIsTerminal ==
  [][~is_active =>
       /\ ~is_active'
       /\ x' = x /\ y' = y /\ orientation' = orientation
       /\ state' = state /\ field' = field
       /\ draws' = <<>>]_vars

\* a tick has been called on a turmite that was already inactive
C1_Witness == Ticked /\ ~Prev.is_active /\ ~is_active /\ draws = <<>>

\* C2: every grid read or write performed by tick (cur_color, set_color) uses
\* a position with 0 <= x < width and 0 <= y < height, so that no tick call
\* ends in the out-of-range panic of self.field[self.x][self.y].
C2_TickAccessesInRange == Ticked => ~panicked

\* C3: an active tick whose move step takes the position from inside the grid
\* to a coordinate that is negative, equal to width or equal to height leaves
\* the turmite inactive.
C3_LeavingTheGridInactivates ==
  [][(TickStep /\ is_active /\ ~panicked /\ InGrid
        /\ LET nx == x + Dx(orientation')
               ny == y + Dy(orientation')
           IN nx < 0 \/ nx = width \/ ny < 0 \/ ny = height)
       => ~is_active']_vars

\* C4: an active tick whose post-rotation orientation is Left at x = 0, or Up
\* at y = 0, leaves that coordinate at 0, leaves the other coordinate
\* unchanged and sets the turmite inactive in that same tick.
C4_LowerBoundClamp ==
  [][(TickStep /\ is_active /\ ~panicked /\ InGrid) =>
       /\ (orientation' = "Left" /\ x = 0)
            => (x' = 0 /\ y' = y /\ ~is_active')
       /\ (orientation' = "Up" /\ y = 0)
            => (y' = 0 /\ x' = x /\ ~is_active')]_vars

\* the tick just made clamped a step to the Left from x = 0, away from the top
C4_Witness ==
  /\ Ticked /\ Prev.is_active /\ Prev.x = 0 /\ Prev.y > 0
  /\ orientation = "Left" /\ x = 0 /\ y = Prev.y /\ ~is_active

\* the tick just made clamped a step Up from y = 0, away from the left edge
C4_WitnessUp ==
  /\ Ticked /\ Prev.is_active /\ Prev.y = 0 /\ Prev.x > 0
  /\ orientation = "Up" /\ y = 0 /\ x = Prev.x /\ ~is_active

\* C5: an active tick at an in-grid position, with s the internal state bit and
\* c the colour of the current cell, applies entry s*2+c of the behaviour
\* table: new internal state, new colour of the pre-move cell, and the
\* orientation turned by the entry's rotation.
C5_DecisionApplied ==
  [][(TickStep /\ is_active /\ ~panicked /\ InGrid) =>
       LET s == IF state THEN 1 ELSE 0
           c == IF field[x][y] THEN 1 ELSE 0
           e == behavior.table[s * 2 + c + 1]
       IN /\ state' = e.state
          /\ field'[x][y] = e.color
          /\ orientation' = Turned(orientation, e.rotate)]_vars

\* the first tick of a turmite created with state bit true on an empty cell
\* has applied entry 1*2+0 = 2 of a table whose entries 1 and 2 differ
C5_Witness ==
  /\ Ticked /\ Prev.is_active
  /\ Prev.state = TRUE /\ args.state = TRUE /\ args.color = FALSE
  /\ Prev.x = width \div 2 /\ Prev.y = height \div 2
  /\ Prev.orientation = "Right"
  /\ \A i \in DOMAIN Prev.field : \A j \in DOMAIN Prev.field[i] :
        ~Prev.field[i][j]
  /\ behavior.table[3] # behavior.table[2]
  /\ state = behavior.table[3].state
  /\ field[Prev.x][Prev.y] = behavior.table[3].color
  /\ orientation = Turned("Right", behavior.table[3].rotate)

\* C10: in an active tick at an in-grid position the new position is the old
\* one plus the delta of the orientation after this tick's rotation, whenever
\* both resulting coordinates are non-negative: exactly one cell, orthogonally.
C10_MoveStep ==
  [][(TickStep /\ is_active /\ ~panicked /\ InGrid) =>
       LET nx == x + Dx(orientation')
           ny == y + Dy(orientation')
           AbsDiff(a, b) == IF a < b THEN b - a ELSE a - b
       IN (nx >= 0 /\ ny >= 0) =>
            /\ x' = nx /\ y' = ny
            /\ AbsDiff(x', x) + AbsDiff(y', y) = 1]_vars

\* the tick just made turned the turmite and moved it one cell along its new
\* heading
C10_Witness ==
  /\ Ticked /\ Prev.is_active /\ is_active
  /\ orientation # Prev.orientation
  /\ x = Prev.x + Dx(orientation) /\ y = Prev.y + Dy(orientation)
  /\ Dx(orientation) # Dx(Prev.orientation)

\* C6 (as claimed): from every initial configuration of create(10, 10, 1),
\* calling tick again and again eventually reaches is_active() = false; so a
\* run in which no further tick can execute has reached is_active() = false.
C6_StopsOnlyInactive == panicked => ~is_active

\* C7: create(W, H, s), when it returns a turmite, returns an active one whose
\* grid is W div s wide and H div s high, standing at (width div 2,
\* height div 2), heading Right, carrying the drawn state bit, with the drawn
\* colour on the starting cell and every other grid cell false.
C7_Created ==
  (~Ticked /\ ~panicked) =>
    /\ is_active
    /\ width = args.canvas_width \div args.pixel_ratio
    /\ height = args.canvas_height \div args.pixel_ratio
    /\ pixel_ratio = args.pixel_ratio
    /\ DOMAIN field = 0 .. width - 1
    /\ \A i \in DOMAIN field : DOMAIN field[i] = 0 .. height - 1
    /\ x = width \div 2 /\ y = height \div 2
    /\ orientation = "Right"
    /\ state = args.state
    /\ field[x][y] = args.color
    /\ \A i \in 0 .. width - 1 : \A j \in 0 .. height - 1 :
         (i # x \/ j # y) => ~field[i][j]

\* a fresh turmite on a grid that is not square, where the division by the
\* pixel ratio truncates, with state bit and starting colour both true
C7_Witness ==
  /\ ~Ticked /\ ~panicked /\ is_active
  /\ width # height /\ width > 1
  /\ args.canvas_width % args.pixel_ratio # 0
  /\ state /\ field[x][y]

\* the other three combinations of state bit and starting colour
C7_WitnessStateOnly == ~Ticked /\ ~panicked /\ state /\ ~field[x][y]

C7_WitnessColorOnly == ~Ticked /\ ~panicked /\ ~state /\ field[x][y]

C7_WitnessNeither == ~Ticked /\ ~panicked /\ ~state /\ ~field[x][y]

\* what a dump must satisfy whatever its order
DumpShape ==
  /\ logged[1].width = width /\ logged[1].height = height
  /\ Len(logged[1].field_output) = width * height
  /\ \A k \in 1 .. Len(logged[1].field_output) :
       logged[1].field_output[k] \in {"0", "1"}

\* C8 (as claimed): the dumped cell string has width*height characters, each
\* '0' or '1', and the character at index y*width + x is '1' iff cell (x, y)
\* is true.
C8_DumpRowMajor ==
  Len(logged) = 1 =>
    /\ DumpShape
    /\ \A i \in 0 .. width - 1 : \A j \in 0 .. height - 1 :
         (logged[1].field_output[j * width + i + 1] = "1") <=> field[i][j]

\* C8 (amended): the dumped cell string has width*height characters, each '0'
\* or '1', and the character at index x*height + y is '1' iff cell (x, y) is
\* true: the grid is written column by column.
C8_DumpColumnMajor ==
  Len(logged) = 1 =>
    /\ DumpShape
    /\ \A i \in 0 .. width - 1 : \A j \in 0 .. height - 1 :
         (logged[1].field_output[i * height + j + 1] = "1") <=> field[i][j]

\* a dump taken after a tick, of a grid with width # height that holds both
\* colours
C8_Witness ==
  /\ Len(logged) = 1 /\ Ticked
  /\ width # height /\ width > 1 /\ height > 1
  /\ \E i \in 0 .. width - 1, j \in 0 .. height - 1 : field[i][j]
  /\ \E i \in 0 .. width - 1, j \in 0 .. height - 1 : ~field[i][j]
  /\ \E k \in 1 .. width * height : logged[1].field_output[k] = "1"

TableNames == {tables[k].name : k \in 1 .. Len(tables)}

\* C9 (as claimed): the catalog the behaviour table is chosen from holds
\* exactly 15 named tables, with pairwise distinct names.
C9_FifteenTables ==
  /\ Len(tables) = 15
  /\ Cardinality(TableNames) = Len(tables)
  /\ behavior.name \in TableNames

\* C9 (amended): the catalog the behaviour table is chosen from holds exactly
\* 16 named tables, with pairwise distinct names.
C9_SixteenTables ==
  /\ Len(tables) = 16
  /\ Cardinality(TableNames) = Len(tables)
  /\ behavior.name \in TableNames

\* the turmite runs the sixteenth table of the catalog
C9_Witness == behavior = tables[16] /\ behavior.name = "dixie" /\ Ticked

\* the state right after a call of tick: draws holds the draw calls of that tick
JustTicked == Ticked /\ logged = <<>>

\* the turmite stood on a cell of the grid before the latest tick
PrevInGrid == Prev.x < width /\ Prev.y < height

CellColors == {FILL_COLOR, EMPTY_COLOR}

\* the positions in draws of the cell draws and of the agent-marker draws
CellDraws == {k \in 1 .. Len(draws) : draws[k].color \in CellColors}

MarkerDraws == {k \in 1 .. Len(draws) : draws[k].color = ANT_COLOR}

\* the rectangle of side pixel_ratio that covers cell (i, j), in colour c
CellRect(i, j, c) ==
  [color |-> c, x |-> i * pixel_ratio, y |-> j * pixel_ratio,
   w |-> pixel_ratio, h |-> pixel_ratio]

\* C11 (as claimed): every tick of an active turmite issues, before the move
\* step, exactly one cell draw: the rectangle of side pixel_ratio at
\* (x*pixel_ratio, y*pixel_ratio) for the pre-move position (x, y), filled iff
\* the cell is true after this tick's state update and empty otherwise.
C11_StaleCellDraw ==
  (JustTicked /\ Prev.is_active) =>
    /\ Len(draws) >= 1
    /\ CellDraws = {1}
    /\ draws[1] = CellRect(Prev.x, Prev.y,
                           IF field[Prev.x][Prev.y] THEN FILL_COLOR
                           ELSE EMPTY_COLOR)

\* the same for the ticks of an active turmite that stands on the grid
C11_StaleCellDrawInGrid ==
  (JustTicked /\ Prev.is_active /\ PrevInGrid) =>
    /\ Len(draws) >= 1
    /\ CellDraws = {1}
    /\ draws[1] = CellRect(Prev.x, Prev.y,
                           IF field[Prev.x][Prev.y] THEN FILL_COLOR
                           ELSE EMPTY_COLOR)

\* C12: in every tick the agent-coloured rectangle is drawn, as the last draw
\* of the tick and at the post-move position, if and only if the tick ran its
\* move step and the turmite is still active after it; a tick that
\* inactivates the turmite draws no agent marker.
C12_AgentMarker ==
  JustTicked =>
    /\ (MarkerDraws # {}) <=> (Prev.is_active /\ PrevInGrid /\ is_active)
    /\ (MarkerDraws # {}) =>
         /\ MarkerDraws = {Len(draws)}
         /\ Len(draws) = 2
         /\ draws[2] = CellRect(x, y, ANT_COLOR)

\* the tick just made moved the turmite and drew the marker on its new cell,
\* after the cell draw on the old one
C12_Witness ==
  /\ JustTicked /\ Prev.is_active /\ is_active
  /\ <<x, y>> # <<Prev.x, Prev.y>>
  /\ Len(draws) = 2
  /\ draws[1].color \in CellColors
  /\ draws[1].x = Prev.x * pixel_ratio /\ draws[1].y = Prev.y * pixel_ratio
  /\ draws[2] = CellRect(x, y, ANT_COLOR)
  /\ pixel_ratio > 1

\* the tick that made the turmite inactive
Inactivated == JustTicked /\ Prev.is_active /\ ~is_active

\* C13 (as claimed): on the tick that clamps a negative coordinate to 0 and
\* makes the turmite inactive, a draw call at the clamped position is still
\* issued after the move step, that is after the cell draw that precedes it.
C13_DrawAfterClamp ==
  Inactivated =>
    \E k \in 2 .. Len(draws) :
      draws[k].x = x * pixel_ratio /\ draws[k].y = y * pixel_ratio

\* C13 (amended): on the tick that clamps a negative coordinate to 0 and
\* makes the turmite inactive, the only draw call is the cell draw issued
\* before the move step, on the cell the turmite is clamped to; no draw call
\* follows the move step, and later ticks issue no draw call.
C13_NoDrawAfterClamp ==
  /\ Inactivated =>
       /\ Len(draws) = 1
       /\ draws[1] = CellRect(x, y, IF field[x][y] THEN FILL_COLOR
                                    ELSE EMPTY_COLOR)
       /\ <<x, y>> = <<Prev.x, Prev.y>>
  /\ (JustTicked /\ ~Prev.is_active) => draws = <<>>

\* the tick just made clamped a step to the Left or Up and made the turmite
\* inactive, with a pixel ratio above 1
C13_Witness ==
  /\ Inactivated
  /\ (orientation = "Left" /\ Prev.x = 0) \/ (orientation = "Up" /\ Prev.y = 0)
  /\ Len(draws) = 1 /\ pixel_ratio > 1 /\ x + y > 0

\* C14 (as claimed): whatever create(W, H, s) with s >= 1 is called with, the
\* start position satisfies x < width and y < height when the initial colour
\* is written to the starting cell, so construction never indexes the grid
\* out of range.
C14_StartInRange == ~Ticked => (x < width /\ y < height /\ ~panicked)

\* C15: a tick changes at most one grid cell, the one at the pre-move
\* position, and never the behaviour table, width, height or pixel ratio.
C15_TickFrame ==
  [][TickStep =>
       /\ behavior' = behavior /\ width' = width /\ height' = height
       /\ pixel_ratio' = pixel_ratio
       /\ DOMAIN field' = DOMAIN field
       /\ \A i \in DOMAIN field :
            /\ DOMAIN field'[i] = DOMAIN field[i]
            /\ \A j \in DOMAIN field[i] :
                 (i # x \/ j # y) => field'[i][j] = field[i][j]]_vars

\* the tick just made changed the cell it stood on, next to a filled cell of
\* the same column that it left alone
C15_Witness ==
  /\ JustTicked /\ Prev.is_active /\ PrevInGrid
  /\ field[Prev.x][Prev.y] # Prev.field[Prev.x][Prev.y]
  /\ \E j \in 0 .. height - 1 :
       j # Prev.y /\ field[Prev.x][j] /\ Prev.field[Prev.x][j]

\* C16: clockwise cycles Up -> Right -> Down -> Left -> Up, so four
\* applications are the identity and fewer are not; clockwise and
\* counter_clockwise undo each other; uturn swaps Up with Down and Right with
\* Left and undoes itself. Stated of the turmite's orientation, which takes
\* all four values.
C16_OrientationAlgebra ==
  LET o == orientation
      cw1 == clockwise(o)
      cw2 == clockwise(cw1)
      cw3 == clockwise(cw2)
      cw4 == clockwise(cw3)
  IN /\ o \in Orientation
     /\ cw1 = Turned(o, "Clockwise")
     /\ cw4 = o /\ cw1 # o /\ cw2 # o /\ cw3 # o
     /\ counter_clockwise(clockwise(o)) = o
     /\ clockwise(counter_clockwise(o)) = o
     /\ uturn(uturn(o)) = o
     /\ uturn(o) = Turned(o, "Uturn")

\* a tick has just turned the turmite clockwise from Left around to Up
C16_Witness ==
  /\ JustTicked /\ Prev.is_active /\ PrevInGrid
  /\ Prev.orientation = "Left" /\ orientation = "Up"
  /\ \E e \in 1 .. 4 : /\ behavior.table[e].rotate = "Clockwise"
                       /\ behavior.table[e].state = state
                       /\ behavior.table[e].color = field[Prev.x][Prev.y]

\* the other headings a tick leaves the turmite with
C16_WitnessRight == JustTicked /\ Prev.is_active /\ orientation = "Right"

C16_WitnessDown == JustTicked /\ Prev.is_active /\ orientation = "Down"

C16_WitnessLeft == JustTicked /\ Prev.is_active /\ orientation = "Left"

\* a table whose entry at index i is the number i
ProbeTable == [name |-> "probe", table |-> <<0, 1, 2, 3>>]

\* C17: for every catalog table and each of the four (state bit, colour bit)
\* pairs, decide returns the stored entry at index state*2 + colour: (0,0)
\* the first, (0,1) the second, (1,0) the third, (1,1) the fourth; the index
\* is in 0..3 and the four pairs reach the four entries one-to-one.
C17_DecideIndexExact ==
  /\ \A k \in 1 .. Len(tables) :
       /\ Len(tables[k].table) = 4
       /\ decide(tables[k], 0, 0) = tables[k].table[1]
       /\ decide(tables[k], 0, 1) = tables[k].table[2]
       /\ decide(tables[k], 1, 0) = tables[k].table[3]
       /\ decide(tables[k], 1, 1) = tables[k].table[4]
  /\ \A sb \in {0, 1}, cb \in {0, 1} :
       /\ decide(ProbeTable, sb, cb) \in 0 .. 3
       /\ decide(ProbeTable, sb, cb) = sb * 2 + cb
  /\ Cardinality({decide(ProbeTable, sb, cb) : sb \in {0, 1}, cb \in {0, 1}}) = 4
  /\ (is_active /\ InGrid) =>
       decide(behavior, IF state THEN 1 ELSE 0, IF field[x][y] THEN 1 ELSE 0)
         \in {behavior.table[e] : e \in 1 .. 4}

\* the tick just made looked up the pair (1, 1) and applied the fourth entry,
\* which differs from the other three
C17_Witness ==
  /\ JustTicked /\ Prev.is_active /\ PrevInGrid
  /\ Prev.state /\ Prev.field[Prev.x][Prev.y]
  /\ \A e \in 1 .. 3 : behavior.table[e] # behavior.table[4]
  /\ state = behavior.table[4].state
  /\ field[Prev.x][Prev.y] = behavior.table[4].color
  /\ orientation = Turned(Prev.orientation, behavior.table[4].rotate)

\* C18: an inactive turmite stands on the grid, in the left column or the top
\* row, and was made inactive by the clamp of move_by: it is clamped at x = 0
\* heading Left or at y = 0 heading Up, never outside the grid.
C18_InactiveOnLeftOrTopEdge ==
  ~is_active =>
    /\ InGrid /\ ~panicked /\ Ticked
    /\ x = 0 \/ y = 0
    /\ (orientation = "Left" /\ x = 0) \/ (orientation = "Up" /\ y = 0)

\* an inactive turmite on the top row, away from the corner, on a grid that
\* it could have left on the right or at the bottom
C18_Witness ==
  /\ ~is_active /\ y = 0 /\ x > 0 /\ orientation = "Up"
  /\ width > 2 /\ height > 2

\* every pixel of the block of cell (i, j) on the surface has colour c
ShownAs(i, j, c) ==
  \A px \in i * pixel_ratio .. (i + 1) * pixel_ratio - 1 :
    \A py \in j * pixel_ratio .. (j + 1) * pixel_ratio - 1 :
      canvas[px][py] = c

\* C19: on a surface that starts all empty, every grid cell other than the
\* turmite's position is shown filled iff it is true and empty iff it is
\* false, and so is the turmite's position once the turmite is inactive.
C19_SurfaceMirrorsGrid ==
  \A i \in 0 .. width - 1 : \A j \in 0 .. height - 1 :
    (i # x \/ j # y \/ ~is_active) =>
      ShownAs(i, j, IF field[i][j] THEN FILL_COLOR ELSE EMPTY_COLOR)

\* an inactive turmite on a filled cell shown filled, with another filled cell
\* and an empty one, each cell more than one pixel wide
C19_Witness ==
  /\ ~is_active /\ Ticked /\ pixel_ratio > 1
  /\ field[x][y] /\ ShownAs(x, y, FILL_COLOR)
  /\ \E i \in 0 .. width - 1, j \in 0 .. height - 1 :
       <<i, j>> # <<x, y>> /\ field[i][j] /\ ShownAs(i, j, FILL_COLOR)
  /\ \E i \in 0 .. width - 1, j \in 0 .. height - 1 : ~field[i][j]

\* an active turmite on the grid whose cell carries the agent marker
C19_WitnessMarker ==
  is_active /\ InGrid /\ Ticked /\ ShownAs(x, y, ANT_COLOR)
====
